---- MODULE Spec2Model ----
(***************************************************************************)
(* A model of KaitaiStream (src/kaitai-stream.ts): a byte cursor `pos`     *)
(* over an immutable buffer, a bit accumulator `bits` with `bitsLeft`      *)
(* valid bits, and the readers that move them.                             *)
(*                                                                         *)
(* JavaScript numbers are modelled exactly where they are integers:        *)
(*   - an int32 (the operand/result type of << >> >>> & | ^) is a TLA+     *)
(*     integer in -2^31 .. 2^31-1; the operators below compute on its      *)
(*     two's-complement bits without ever leaving that range;              *)
(*   - a number that may leave that range (a uint32, a 64-bit sum) is a    *)
(*     "Num": NumLimbs digits in base 65536, least significant first, in   *)
(*     two's complement.  IEEE-754 rounding of integers beyond 2^53 is not *)
(*     modelled: Num arithmetic is exact.                                  *)
(***************************************************************************)
EXTENDS Integers, Sequences, FiniteSets, TLC

\* Base-65536 digits of the exact integers that stand for JavaScript numbers.
NumLimbs == 5
\* Longest backing buffer the stream specification constructs.
MaxSize == 9
\* Largest length argument of readBytes / largest seek target beyond the end.
MaxLen == 3
\* Bit-integer readers accept at most this many bits (n > 32 throws).
MaxBitLen == 32

(***************************************************************************)
(* int32 arithmetic: ToInt32 and the bitwise operators                     *)
(***************************************************************************)
\* Bits 0..30 of an int32, as a natural number.
Low31(x) == IF x >= 0 THEN x ELSE (x + 2147483647) + 1

\* The int32 with bits 0..30 equal to low and sign bit neg.
Int32(low, neg) == IF neg THEN (low - 2147483647) - 1 ELSE low

RECURSIVE AndU(_, _)
AndU(a, b) ==
  IF a = 0 \/ b = 0 THEN 0
  ELSE (IF a % 2 = 1 /\ b % 2 = 1 THEN 1 ELSE 0) + 2 * AndU(a \div 2, b \div 2)

RECURSIVE OrU(_, _)
OrU(a, b) ==
  IF a = 0 THEN b
  ELSE IF b = 0 THEN a
  ELSE (IF a % 2 = 1 \/ b % 2 = 1 THEN 1 ELSE 0) + 2 * OrU(a \div 2, b \div 2)

RECURSIVE XorU(_, _)
XorU(a, b) ==
  IF a = 0 THEN b
  ELSE IF b = 0 THEN a
  ELSE (IF a % 2 # b % 2 THEN 1 ELSE 0) + 2 * XorU(a \div 2, b \div 2)

\* x & y, x | y, x ^ y
And32(x, y) == Int32(AndU(Low31(x), Low31(y)), x < 0 /\ y < 0)
Or32(x, y) == Int32(OrU(Low31(x), Low31(y)), x < 0 \/ y < 0)
Xor32(x, y) == Int32(XorU(Low31(x), Low31(y)), (x < 0) # (y < 0))

\* x << s : the shift count is taken modulo 32, bits shifted out are lost.
Shl32(x, s) ==
  LET k == s % 32 IN
  IF k = 0 THEN x
  ELSE IF k = 31 THEN Int32(0, x % 2 = 1)
  ELSE Int32((Low31(x) % (2 ^ (31 - k))) * (2 ^ k),
             (Low31(x) \div (2 ^ (31 - k))) % 2 = 1)

\* x >> s : sign-propagating, count modulo 32.
Sar32(x, s) ==
  LET k == s % 32 IN
  IF k = 31 THEN (IF x < 0 THEN 0 - 1 ELSE 0) ELSE x \div (2 ^ k)

\* ToInt32(x >>> s) : zero-filling, count modulo 32.  x >>> s is a uint32;
\* the only use of it is as an operand of &, which applies ToInt32 to it.
Ushr32(x, s) ==
  LET k == s % 32 IN
  IF k = 0 THEN x
  ELSE IF k = 31 THEN (IF x < 0 THEN 1 ELSE 0)
  ELSE (Low31(x) \div (2 ^ k)) + (IF x < 0 THEN 2 ^ (31 - k) ELSE 0)

\* The literal 0xffffffff as an operand of & or ^ : ToInt32 makes it -1.
AllOnes32 == Int32(2147483647, TRUE)
\* The literal 0x80000000 as an operand of & : ToInt32 makes it -2^31.
SignBit32 == Int32(0, TRUE)

\* ToInt32((1 << k) - 1): 1 << k takes k modulo 32; for k % 32 = 31 the
\* number -2^31 - 1 wraps to 2^31 - 1.
MaskBits(k) == IF k % 32 = 31 THEN 2147483647 ELSE (2 ^ (k % 32)) - 1

(***************************************************************************)
(* Exact integers ("Num"): two's complement in base 65536                  *)
(***************************************************************************)
LimbIdx == 1..NumLimbs

\* An int32 read as a number.
SignExt32(x) ==
  [j \in LimbIdx |-> IF j = 1 THEN Low31(x) % 65536
                     ELSE IF j = 2
                       THEN (Low31(x) \div 65536) + (IF x < 0 THEN 32768 ELSE 0)
                     ELSE IF x < 0 THEN 65535 ELSE 0]

\* ToInt32 of a number: its low 32 bits as an int32.
Low32(x) == Int32(x[1] + 65536 * (x[2] % 32768), x[2] >= 32768)

NumZero == [j \in LimbIdx |-> 0]
NumOne == [j \in LimbIdx |-> IF j = 1 THEN 1 ELSE 0]

RECURSIVE AddFrom(_, _, _, _)
\* Digits j, j+1, ... of a + b, given the carry c into digit j.
AddFrom(a, b, j, c) ==
  IF j > NumLimbs THEN <<>>
  ELSE <<(a[j] + b[j] + c) % 65536>>
         \o AddFrom(a, b, j + 1, (a[j] + b[j] + c) \div 65536)

\* a + b
NumAdd(a, b) == AddFrom(a, b, 1, 0)

\* -a
NumNeg(a) == NumAdd([j \in LimbIdx |-> 65535 - a[j]], NumOne)

\* a - b
NumSub(a, b) == NumAdd(a, NumNeg(b))

\* 0x100000000 * a
NumMul2p32(a) == [j \in LimbIdx |-> IF j > 2 THEN a[j - 2] ELSE 0]

NumNegative(a) == a[NumLimbs] >= 32768

RECURSIVE BitLen(_)
\* Number of bits of a digit: 0 for 0, 16 for 65535.
BitLen(v) == IF v = 0 THEN 0 ELSE 1 + BitLen(v \div 2)

RECURSIVE BitLenFrom(_, _)
\* Number of bits of the digits 1..j of a non-negative number.
BitLenFrom(m, j) ==
  IF j = 0 THEN 0
  ELSE IF m[j] # 0 THEN 16 * (j - 1) + BitLen(m[j])
  ELSE BitLenFrom(m, j - 1)

NumBitLen(m) == BitLenFrom(m, NumLimbs)

\* A non-negative number below 2^68 as a Number value: a double keeps 53
\* significant bits, the d bits below them are rounded away, to nearest and
\* on a tie to the even neighbour.
RoundMagnitude(m) ==
  LET d == NumBitLen(m) - 53 IN
  IF d <= 0 THEN m
  ELSE
    LET unit == 2 ^ d
        low  == m[1] % unit
        base == [m EXCEPT ![1] = m[1] - low]
        odd  == (m[1] \div unit) % 2 = 1
        up   == low > unit \div 2 \/ (low = unit \div 2 /\ odd)
    IN  IF up THEN NumAdd(base, [j \in LimbIdx |-> IF j = 1 THEN unit ELSE 0])
        ELSE base

\* The Number value (IEEE 754 double) an arithmetic operator yields for the
\* exact result x.
RoundDouble(x) ==
  IF NumNegative(x) THEN NumNeg(RoundMagnitude(NumNeg(x)))
  ELSE RoundMagnitude(x)

(***************************************************************************)
(* Static helpers of KaitaiStream                                          *)
(***************************************************************************)
\* A static helper that returned v, or threw the string msg.
Returned(v) == [ok |-> TRUE, ret |-> v, err |-> ""]
Thrown(msg) == [ok |-> FALSE, ret |-> 0, err |-> msg]

\* Storing v in a Uint8Array element: v modulo 256.
ToUint8(v) == v % 256

\* processRotateLeft(data, amount, groupSize)
ProcessRotateLeft(data, amount, groupSize) ==
  IF groupSize # 1 THEN Thrown("unable to rotate group")
  ELSE
    LET mask == groupSize * 8 - 1
        antiAmount == And32(0 - amount, mask)
    IN  Returned([i \in 1..Len(data) |->
                   ToUint8(Or32(And32(Shl32(data[i], amount), 255),
                                Sar32(data[i], antiAmount)))])

\* a % b of JavaScript for integers a and b > 0: the remainder has the sign
\* of a.
JsRem(a, b) == IF a >= 0 THEN a % b ELSE 0 - ((0 - a) % b)

\* mod without the correction of a negative remainder
ModTruncated(a, b) ==
  IF b <= 0 THEN Thrown("mod divisor <= 0") ELSE Returned(JsRem(a, b))

\* mod(a, b)
Mod(a, b) ==
  IF b <= 0 THEN Thrown("mod divisor <= 0")
  ELSE LET r == JsRem(a, b) IN Returned(IF r < 0 THEN r + b ELSE r)

RECURSIVE FirstCmp(_, _, _, _)
\* The loop of byteArrayCompare from index i (0-based): the first non-zero
\* a[i] - b[i] with i < minLen, or 0.
FirstCmp(a, b, i, minLen) ==
  IF i >= minLen THEN 0
  ELSE IF a[i + 1] - b[i + 1] # 0 THEN a[i + 1] - b[i + 1]
  ELSE FirstCmp(a, b, i + 1, minLen)

\* byteArrayCompare that stops at the end of the shorter array
ByteArrayCompareNoLength(a, b, same) ==
  IF same THEN 0
  ELSE FirstCmp(a, b, 0, IF Len(a) < Len(b) THEN Len(a) ELSE Len(b))

\* byteArrayCompare(a, b); same says that a and b are one and the same array
\* (a === b).
ByteArrayCompare(a, b, same) ==
  IF same THEN 0
  ELSE
    LET al == Len(a)
        bl == Len(b)
        minLen == IF al < bl THEN al ELSE bl
        cmp == FirstCmp(a, b, 0, minLen)
    IN  IF cmp # 0 THEN cmp
        ELSE IF al = bl THEN 0
        ELSE al - bl

(***************************************************************************)
(* Stream state                                                            *)
(***************************************************************************)
VARIABLES
  buffer,       \* _buffer: the bytes of the backing ArrayBuffer (1-based here)
  byteOffset,   \* _byteOffset
  byteLength,   \* _byteLength
  viewOffset,   \* the byteOffset _dataView was created with
  pos,          \* pos
  bits,         \* bits: an int32 value
  bitsLeft,     \* bitsLeft
  last,         \* history: the observed call, its arguments and its outcome
  run,          \* history: the bit-integer reads since the stream was aligned
  widths,       \* history: the widths read, while only fixed-width reads
                \* have been made and all of them returned
  call,         \* a client of the static helpers: its arguments and results
  node          \* a parser node (KaitaiImpl) under construction

vars == <<buffer, byteOffset, byteLength, viewOffset, pos, bits, bitsLeft,
          last, run, widths, call, node>>

\* get size()
Size == byteLength - byteOffset

\* isEof()
IsEofAt(p, bl) == p >= Size /\ bl = 0
IsEof == IsEofAt(pos, bitsLeft)

(***************************************************************************)
(* Outcomes of a call                                                      *)
(***************************************************************************)
NoErr == [kind |-> "none", bytesRequired |-> 0, bytesAvailable |-> 0,
          expected |-> <<>>, actual |-> <<>>]
\* new EOFError(bytesRequired, bytesAvailable)
EOFError(req, avail) == [NoErr EXCEPT !.kind = "EOFError",
                                      !.bytesRequired = req,
                                      !.bytesAvailable = avail]
\* new UnexpectedDataError(expected, actual)
UnexpectedDataError(e, a) == [NoErr EXCEPT !.kind = "UnexpectedDataError",
                                           !.expected = e, !.actual = a]
\* a RangeError of the host (typed array / DataView out of bounds)
RangeError == [NoErr EXCEPT !.kind = "RangeError"]
\* throw new Error("... maximum supported bit length is 32 ...")
BitLenError == [NoErr EXCEPT !.kind = "Error"]
\* throw `End of stream reached, but no terminator ... found`
NoTermError == [NoErr EXCEPT !.kind = "string"]

NoRet == [type |-> "none", num |-> NumZero, bytes |-> <<>>, flag |-> FALSE]
RetNum(x) == [NoRet EXCEPT !.type = "number", !.num = x]
\* a float result is kept as its IEEE-754 bit pattern
RetFloat(x) == [NoRet EXCEPT !.type = "float", !.num = x]
RetBytes(b) == [NoRet EXCEPT !.type = "bytes", !.bytes = b]
RetBool(f) == [NoRet EXCEPT !.type = "boolean", !.flag = f]

\* A call that threw: the cursor is what it was when the exception left.
Throw(e, p, b, bl) ==
  [ok |-> FALSE, err |-> e, ret |-> NoRet, pos |-> p, bits |-> b, bitsLeft |-> bl]
\* A call that returned.
Return(r, p, b, bl) ==
  [ok |-> TRUE, err |-> NoErr, ret |-> r, pos |-> p, bits |-> b, bitsLeft |-> bl]

(***************************************************************************)
(* Construction                                                            *)
(***************************************************************************)
\* new DataView(buf, off) throws a RangeError when off is past the buffer.
DataViewOk(buf, off) == 0 <= off /\ off <= Len(buf)

\* set buffer(v), reached with _byteOffset already set
CtorFromBuffer(buf, off) ==
  [buffer |-> buf, byteOffset |-> off, viewOffset |-> off,
   byteLength |-> Len(buf)]

\* set dataView({byteOffset, buffer, byteLength}), then the constructor's
\* "if (byteOffset) this._byteOffset += byteOffset"
CtorFromView(buf, dvOffset, dvLength, off) ==
  [buffer |-> buf, byteOffset |-> dvOffset + off, viewOffset |-> dvOffset,
   byteLength |-> dvOffset + dvLength]

\* new ArrayBuffer(arrayBuffer || 1): zero-filled
CtorFromNumber(n, off) ==
  CtorFromBuffer([i \in 1..(IF n = 0 THEN 1 ELSE n) |-> 0], off)

\* constructor(arrayBuffer, byteOffset): a is the first argument, tagged by
\* what it is; off is byteOffset || 0.
Construct(a, off) ==
  CASE a.kind = "ArrayBuffer" -> CtorFromBuffer(a.buf, off)
    [] a.kind = "DataView" -> CtorFromView(a.buf, a.byteOffset, a.byteLength, off)
    [] OTHER -> CtorFromNumber(a.n, off)

(***************************************************************************)
(* Primitive checks and byte runs                                          *)
(***************************************************************************)
\* ensureBytesLeft with the comparison off by one: a run that ends exactly at
\* the end of the stream is refused.
EnsureBytesLeftStrict(p, length) == ~(p + length >= Size)

\* ensureBytesLeft(length) at cursor p: TRUE when it returns.
EnsureBytesLeft(p, length) == ~(p + length > Size)

\* mapUint8Array that would also drop the held bits.
MapUint8ArrayAligning(p, length, b, bl) ==
  IF ~EnsureBytesLeft(p, length)
    THEN Throw(EOFError(length, Size - p), p, b, bl)
  ELSE IF length < 0 \/ byteOffset + p < 0
          \/ byteOffset + p + length > Len(buffer)
    THEN Throw(RangeError, p, b, bl)
  ELSE Return(RetBytes(SubSeq(buffer, byteOffset + p + 1,
                              byteOffset + p + length)),
              p + length, 0, 0)

\* mapUint8Array(length) at cursor p, length being the int32 that
\* "length |= 0" has made of the argument.
MapUint8Array(p, length, b, bl) ==
  IF ~EnsureBytesLeft(p, length)
    THEN Throw(EOFError(length, Size - p), p, b, bl)
  ELSE IF length < 0 \/ byteOffset + p < 0
          \/ byteOffset + p + length > Len(buffer)
    THEN Throw(RangeError, p, b, bl)
  ELSE Return(RetBytes(SubSeq(buffer, byteOffset + p + 1,
                              byteOffset + p + length)),
              p + length, b, bl)

\* readBytes(len) for a len within int32
ReadBytesAt(p, len, b, bl) == MapUint8Array(p, len, b, bl)

\* readBytes(len) for any integer len: "length |= 0" is ToInt32
ReadBytesNumAt(p, len, b, bl) == MapUint8Array(p, Low32(len), b, bl)

\* readBytesFull()
ReadBytesFullAt(p, b, bl) == MapUint8Array(p, Size - p, b, bl)

RECURSIVE ScanTerm(_, _, _, _)
\* for (i = 0; i < blen && u8[i] !== terminator; i++);  u8 starts at
\* _byteOffset + p; reading past its end yields undefined, never the terminator.
ScanTerm(i, blen, p, term) ==
  IF i < blen
     /\ ~(byteOffset + p + i + 1 <= Len(buffer)
          /\ buffer[byteOffset + p + i + 1] = term)
    THEN ScanTerm(i + 1, blen, p, term)
    ELSE i

\* readBytesTerm(terminator, include, consume, eosError)
ReadBytesTermAt(p, term, include, consume, eosError, b, bl) ==
  LET blen == Size - p IN
  IF ~DataViewOk(buffer, byteOffset + p)
    THEN Throw(RangeError, p, b, bl)
  ELSE
    LET i == ScanTerm(0, blen, p, term) IN
    IF i = blen
      THEN IF eosError THEN Throw(NoTermError, p, b, bl)
                       ELSE MapUint8Array(p, i, b, bl)
      ELSE LET arr == IF include THEN MapUint8Array(p, i + 1, b, bl)
                                 ELSE MapUint8Array(p, i, b, bl)
           IN  IF ~arr.ok THEN arr
               ELSE IF consume THEN [arr EXCEPT !.pos = arr.pos + 1]
               ELSE arr

RECURSIVE FirstDiffHead(_, _, _)
\* The comparison loop cut short after the first byte.
FirstDiffHead(actual, expected, i) ==
  IF i > Len(actual) \/ i > 1 THEN FALSE
  ELSE IF actual[i] # expected[i] THEN TRUE
  ELSE FirstDiffHead(actual, expected, i + 1)

RECURSIVE FirstDiff(_, _, _)
\* for (i = 0; i < actLen; i++) if (actual[i] !== expected[i]) ...: whether
\* some index from i on differs.
FirstDiff(actual, expected, i) ==
  IF i > Len(actual) THEN FALSE
  ELSE IF actual[i] # expected[i] THEN TRUE
  ELSE FirstDiff(actual, expected, i + 1)

\* ensureFixedContents that would put pos back before it throws.
EnsureFixedContentsAtRewind(p, expected, b, bl) ==
  LET actual == ReadBytesAt(p, Len(expected), b, bl) IN
  IF ~actual.ok THEN actual
  ELSE IF actual.ret.bytes # expected
    THEN Throw(UnexpectedDataError(expected, actual.ret.bytes), p, b, bl)
  ELSE actual

\* ensureFixedContents(expected)
EnsureFixedContentsAt(p, expected, b, bl) ==
  LET actual == ReadBytesAt(p, Len(expected), b, bl) IN
  IF ~actual.ok THEN actual
  ELSE IF Len(actual.ret.bytes) # Len(expected)
    THEN Throw(UnexpectedDataError(expected, actual.ret.bytes),
               actual.pos, b, bl)
  ELSE IF FirstDiff(actual.ret.bytes, expected, 1)
    THEN Throw(UnexpectedDataError(expected, actual.ret.bytes),
               actual.pos, b, bl)
  ELSE actual

(***************************************************************************)
(* Fixed-width readers                                                     *)
(***************************************************************************)
\* The integer a DataView getter assembles from the W bytes bs: little says
\* which end is least significant, signed whether the top bit extends.
IntFromBytes(bs, little, signed) ==
  LET W == Len(bs)
      top == IF little THEN bs[W] ELSE bs[1]
      fill == IF signed /\ top >= 128 THEN 255 ELSE 0
      byteOf(k) == IF k >= W THEN fill
                   ELSE IF little THEN bs[k + 1] ELSE bs[W - k]
  IN  [j \in LimbIdx |-> byteOf(2 * (j - 1)) + 256 * byteOf(2 * (j - 1) + 1)]

\* this._dataView.getXxx(p [, littleEndian]) on W bytes
DataViewGet(p, W, little, signed) ==
  IntFromBytes([j \in 1..W |-> buffer[viewOffset + p + j]], little, signed)

\* A fixed-width reader that would forget its "pos += W".
ReadFixedAtStuck(p, W, little, type, b, bl) ==
  IF ~EnsureBytesLeft(p, W)
    THEN Throw(EOFError(W, Size - p), p, b, bl)
  ELSE IF p < 0 \/ viewOffset + p + W > Len(buffer)
    THEN Throw(RangeError, p, b, bl)
  ELSE IF type = "float"
    THEN Return(RetFloat(DataViewGet(p, W, little, FALSE)), p, b, bl)
  ELSE Return(RetNum(DataViewGet(p, W, little, type = "signed")), p, b, bl)

\* ensureBytesLeft(W); v = _dataView.getXxx(pos); pos += W; return v
ReadFixedAt(p, W, little, type, b, bl) ==
  IF ~EnsureBytesLeft(p, W)
    THEN Throw(EOFError(W, Size - p), p, b, bl)
  ELSE IF p < 0 \/ viewOffset + p + W > Len(buffer)
    THEN Throw(RangeError, p, b, bl)
  ELSE IF type = "float"
    THEN Return(RetFloat(DataViewGet(p, W, little, FALSE)), p + W, b, bl)
  ELSE Return(RetNum(DataViewGet(p, W, little, type = "signed")), p + W, b, bl)

ReadU4beAt(p, b, bl) == ReadFixedAt(p, 4, FALSE, "unsigned", b, bl)
ReadU4leAt(p, b, bl) == ReadFixedAt(p, 4, TRUE, "unsigned", b, bl)

\* The two readU4xx() calls of a 64-bit reader, after its ensureBytesLeft(8):
\* [ok, v1, v2, out] with out the outcome to propagate when a half throws.
ReadHalvesAt(p, little, b, bl) ==
  IF ~EnsureBytesLeft(p, 8)
    THEN [ok |-> FALSE, out |-> Throw(EOFError(8, Size - p), p, b, bl),
          v1 |-> NumZero, v2 |-> NumZero]
  ELSE
    LET r1 == IF little THEN ReadU4leAt(p, b, bl) ELSE ReadU4beAt(p, b, bl)
        r2 == IF little THEN ReadU4leAt(r1.pos, b, bl)
                        ELSE ReadU4beAt(r1.pos, b, bl)
    IN  IF ~r1.ok THEN [ok |-> FALSE, out |-> r1, v1 |-> NumZero, v2 |-> NumZero]
        ELSE IF ~r2.ok
          THEN [ok |-> FALSE, out |-> r2, v1 |-> NumZero, v2 |-> NumZero]
        ELSE [ok |-> TRUE, out |-> r2, v1 |-> r1.ret.num, v2 |-> r2.ret.num]

\* 0x100000000 * lo + hi: the halves taken the wrong way round
Join64Swapped(hi, lo) == RoundDouble(NumAdd(NumMul2p32(lo), hi))

\* 0x100000000 * hi + lo: the product is exact, the sum is rounded
Join64(hi, lo) == RoundDouble(NumAdd(NumMul2p32(hi), lo))

\* v ^ 0xffffffff: both operands pass through ToInt32, the result is an int32
XorAllOnes(v) == SignExt32(Xor32(Low32(v), AllOnes32))

\* (v & 0x80000000) !== 0
SignBitSet(v) == And32(Low32(v), SignBit32) # 0

\* the value readS8xx returns for the more significant half hi and the other
\* half lo:  -(0x100000000 * (hi ^ 0xffffffff) + (lo ^ 0xffffffff)) - 1, or
\* 0x100000000 * hi + lo
Signed64(hi, lo) ==
  IF SignBitSet(hi)
    THEN RoundDouble(NumSub(NumNeg(Join64(XorAllOnes(hi), XorAllOnes(lo))),
                            NumOne))
    ELSE Join64(hi, lo)

\* readU8be()
ReadU8beAt(p, b, bl) ==
  LET h == ReadHalvesAt(p, FALSE, b, bl) IN
  IF ~h.ok THEN h.out
  ELSE Return(RetNum(Join64(h.v1, h.v2)), h.out.pos, b, bl)

\* readU8le()
ReadU8leAt(p, b, bl) ==
  LET h == ReadHalvesAt(p, TRUE, b, bl) IN
  IF ~h.ok THEN h.out
  ELSE Return(RetNum(Join64(h.v2, h.v1)), h.out.pos, b, bl)

\* readS8be()
ReadS8beAt(p, b, bl) ==
  LET h == ReadHalvesAt(p, FALSE, b, bl) IN
  IF ~h.ok THEN h.out
  ELSE Return(RetNum(Signed64(h.v1, h.v2)), h.out.pos, b, bl)

\* readS8le()
ReadS8leAt(p, b, bl) ==
  LET h == ReadHalvesAt(p, TRUE, b, bl) IN
  IF ~h.ok THEN h.out
  ELSE Return(RetNum(Signed64(h.v2, h.v1)), h.out.pos, b, bl)

(***************************************************************************)
(* Bit-integer readers                                                     *)
(***************************************************************************)
\* Math.ceil(bitsNeeded / 8) for bitsNeeded > 0
BytesNeeded(bitsNeeded) == (bitsNeeded + 7) \div 8

RECURSIVE FillBe(_, _, _)
\* for each byte: this.bits <<= 8; this.bits |= buf[i]
FillBe(acc, buf, i) ==
  IF i > Len(buf) THEN acc
  ELSE FillBe(Or32(Shl32(acc, 8), buf[i]), buf, i + 1)

RECURSIVE FillLe(_, _, _, _)
\* for each byte: this.bits |= buf[i] << this.bitsLeft; this.bitsLeft += 8
FillLe(acc, buf, i, bl) ==
  IF i > Len(buf) THEN acc
  ELSE FillLe(Or32(acc, Shl32(buf[i], bl)), buf, i + 1, bl + 8)

\* n === 32 ? 0xffffffff : (1 << n) - 1
ReadMask(n) == IF n = 32 THEN AllOnes32 ELSE MaskBits(n)

\* The bytes a bit-integer read borrows: readBytes(bytesNeeded) when
\* bitsNeeded > 0, nothing otherwise.
BorrowAt(p, n, b, bl) ==
  IF n - bl > 0 THEN ReadBytesAt(p, BytesNeeded(n - bl), b, bl)
                ELSE Return(RetBytes(<<>>), p, b, bl)

\* readBitsIntBe that would forget its "this.bitsLeft -= n".
ReadBitsIntBeAtKeep(p, n, b, bl) ==
  IF n > MaxBitLen THEN Throw(BitLenError, p, b, bl)
  ELSE
    LET buf == BorrowAt(p, n, b, bl) IN
    IF ~buf.ok THEN buf
    ELSE
      LET acc == FillBe(b, buf.ret.bytes, 1)
          bl1 == bl + 8 * Len(buf.ret.bytes)
          res == And32(Ushr32(acc, bl1 - n), ReadMask(n))
      IN  Return(RetNum(SignExt32(res)), buf.pos, And32(acc, MaskBits(bl1)), bl1)

\* readBitsIntBe that would hand out the low bits of the accumulator first.
ReadBitsIntBeAtLowFirst(p, n, b, bl) ==
  IF n > MaxBitLen THEN Throw(BitLenError, p, b, bl)
  ELSE
    LET buf == BorrowAt(p, n, b, bl) IN
    IF ~buf.ok THEN buf
    ELSE
      LET acc == FillBe(b, buf.ret.bytes, 1)
          bl1 == bl + 8 * Len(buf.ret.bytes)
          res == And32(acc, ReadMask(n))
      IN  Return(RetNum(SignExt32(res)), buf.pos, Ushr32(acc, n), bl1 - n)

\* readBitsIntBe(n)
ReadBitsIntBeAt(p, n, b, bl) ==
  IF n > MaxBitLen THEN Throw(BitLenError, p, b, bl)
  ELSE
    LET buf == BorrowAt(p, n, b, bl) IN
    IF ~buf.ok THEN buf
    ELSE
      LET acc == FillBe(b, buf.ret.bytes, 1)
          bl1 == bl + 8 * Len(buf.ret.bytes)
          shiftBits == bl1 - n
          res == And32(Ushr32(acc, shiftBits), ReadMask(n))
          bl2 == bl1 - n
          acc2 == And32(acc, MaskBits(bl2))
      IN  Return(RetNum(SignExt32(res)), buf.pos, acc2, bl2)

\* readBitsIntLe(n)
ReadBitsIntLeAt(p, n, b, bl) ==
  IF n > MaxBitLen THEN Throw(BitLenError, p, b, bl)
  ELSE
    LET buf == BorrowAt(p, n, b, bl) IN
    IF ~buf.ok THEN buf
    ELSE
      LET acc == FillLe(b, buf.ret.bytes, 1, bl)
          bl1 == bl + 8 * Len(buf.ret.bytes)
          res == And32(acc, ReadMask(n))
          acc2 == Sar32(acc, n)
      IN  Return(RetNum(SignExt32(res)), buf.pos, acc2, bl1 - n)

(***************************************************************************)
(* seek                                                                    *)
(***************************************************************************)
\* A number argument that need not be finite.
Fin(v) == [kind |-> "finite", v |-> v]
NaN == [kind |-> "NaN", v |-> 0]
PosInf == [kind |-> "Infinity", v |-> 0]
NegInf == [kind |-> "-Infinity", v |-> 0]

\* Math.min(a, b)
MathMin(a, b) ==
  IF a.kind = "NaN" \/ b.kind = "NaN" THEN NaN
  ELSE IF a.kind = "-Infinity" \/ b.kind = "-Infinity" THEN NegInf
  ELSE IF a.kind = "Infinity" THEN b
  ELSE IF b.kind = "Infinity" THEN a
  ELSE IF a.v <= b.v THEN a ELSE b

\* Math.max(a, b)
MathMax(a, b) ==
  IF a.kind = "NaN" \/ b.kind = "NaN" THEN NaN
  ELSE IF a.kind = "Infinity" \/ b.kind = "Infinity" THEN PosInf
  ELSE IF a.kind = "-Infinity" THEN b
  ELSE IF b.kind = "-Infinity" THEN a
  ELSE IF a.v >= b.v THEN a ELSE b

\* seek(t): the new pos
SeekPos(t) ==
  LET npos == MathMax(Fin(0), MathMin(Fin(Size), t))
  IN  IF npos.kind # "finite" THEN 0 ELSE npos.v

(***************************************************************************)
(* History                                                                 *)
(*                                                                         *)
(* A behaviour is a sequence of calls on one stream.  `last` is the record *)
(* of one of them, the call under observation: its arguments, the cursor   *)
(* it was made at and what came of it.  The calls before it leave `last`   *)
(* at Unobserved and the behaviour ends with the observed call, so a state *)
(* with last # Unobserved is the state right after a call made at the end  *)
(* of an arbitrary sequence of earlier calls.                              *)
(***************************************************************************)
Unobserved ==
  [op |-> "none", ok |-> TRUE, err |-> NoErr, ret |-> NoRet,
   n |-> 0, len |-> NumZero, target |-> Fin(0), term |-> 0,
   include |-> FALSE,
   consume |-> FALSE, eosError |-> FALSE, expected |-> <<>>,
   prePos |-> 0, preBits |-> 0, preBitsLeft |-> 0,
   bitFrom |-> 0, pure |-> FALSE]

\* The record of a call: what it was made on and what came of it.
Did(op, r) ==
  [Unobserved EXCEPT !.op = op, !.ok = r.ok, !.err = r.err, !.ret = r.ret,
                     !.prePos = pos, !.preBits = bits,
                     !.preBitsLeft = bitsLeft]

\* A run of bit-integer reads: the bit offset (8 * pos) at which the stream
\* was last byte-aligned, the bits read since, and the bit order used.
FreshRun(p) == [order |-> "none", start |-> 8 * p, read |-> 0]
BrokenRun == [order |-> "broken", start |-> 0, read |-> 0]

\* After a call that is not a bit-integer read: a cursor it did not touch
\* leaves the run as it is, an empty accumulator starts a new one, and bytes
\* taken past held bits break it.
RunAfter(r) ==
  IF r.pos = pos /\ r.bits = bits /\ r.bitsLeft = bitsLeft
     /\ run.order # "broken" THEN run
  ELSE IF r.bits = 0 /\ r.bitsLeft = 0 THEN FreshRun(r.pos)
  ELSE BrokenRun

\* The widths read so far, after a call of declared width w (0 when the call
\* is not a fixed-width read) with outcome r.
WidthsAfter(r, w) ==
  IF widths.only /\ w > 0 /\ r.ok
    THEN [only |-> TRUE, sum |-> widths.sum + w]
    ELSE [only |-> FALSE, sum |-> 0]

\* After a bit-integer read of n bits in bit order o.
RunAfterBits(r, o, n) ==
  IF ~r.ok THEN run
  ELSE IF run.order \in {"none", o}
    THEN [run EXCEPT !.order = o, !.read = run.read + n]
  ELSE BrokenRun

\* The record of a bit-integer read: bitFrom is the offset in the stream of
\* the first bit it is to deliver, pure says that every bit read since the
\* stream was last aligned was read in the same bit order.
DidBits(op, r, o, n) ==
  [Did(op, r) EXCEPT !.n = n, !.bitFrom = run.start + run.read,
                     !.pure = run.order \in {"none", o}]

\* No static helper is being used; no parser node is being constructed.
NoCall == [fn |-> "none"]
NoNode == [pc |-> "none"]

\* One call: the cursor moves to where the outcome r leaves it; the call is
\* the observed one (record l) or one of those before it.
Step(r, l, rn, w) ==
  /\ last = Unobserved
  /\ pos' = r.pos
  /\ bits' = r.bits
  /\ bitsLeft' = r.bitsLeft
  /\ last' \in {Unobserved, l}
  /\ run' = rn
  /\ widths' = WidthsAfter(r, w)
  /\ UNCHANGED <<buffer, byteOffset, byteLength, viewOffset, call, node>>

(***************************************************************************)
(* Inputs                                                                  *)
(***************************************************************************)
Min(a, b) == IF a <= b THEN a ELSE b

SampleBytes == <<65, 66, 67, 0, 68, 6, 128, 1, 255, 0, 79, 103>>

\* The backing buffers: the prefixes of SampleBytes.
Buffers == {SubSeq(SampleBytes, 1, n) : n \in 0..Min(MaxSize, Len(SampleBytes))}

\* The byteOffset arguments, and the offsets of a DataView into its buffer.
Offsets == {0, 1}

\* new KaitaiStream(arrayBuffer, byteOffset) with byteOffset within the buffer
BufferInputs ==
  {[a |-> [kind |-> "ArrayBuffer", buf |-> b], off |-> o] :
     b \in Buffers, o \in Offsets}

\* new KaitaiStream(dataView [, byteOffset]) with a view that ends one byte
\* before the buffer does and byteOffset within the view
ViewInputs ==
  {[a |-> [kind |-> "DataView", buf |-> b, byteOffset |-> d,
           byteLength |-> Len(b) - d - 1], off |-> o] :
     b \in Buffers, d \in Offsets, o \in Offsets}

\* new KaitaiStream(n)
NumberInputs ==
  {[a |-> [kind |-> "number", n |-> n], off |-> 0] : n \in {0, 2}}

InputOk(c) ==
  CASE c.a.kind = "ArrayBuffer" -> c.off <= Len(c.a.buf)
    [] c.a.kind = "DataView" -> c.a.byteLength >= 0 /\ c.off <= c.a.byteLength
    [] OTHER -> TRUE

CtorInputs == {c \in BufferInputs \cup ViewInputs \cup NumberInputs : InputOk(c)}

Lens == (-1)..MaxLen
\* 2^31, 2^32 and 2^32 + 1
BigLens ==
  {[j \in LimbIdx |-> IF j = 2 THEN 32768 ELSE 0],
   [j \in LimbIdx |-> IF j = 3 THEN 1 ELSE 0],
   [j \in LimbIdx |-> IF j \in {1, 3} THEN 1 ELSE 0]}
\* The len arguments of readBytes, as numbers.
LenArgs == {SignExt32(n) : n \in Lens} \cup BigLens
SeekTargets ==
  {Fin(v) : v \in (-1)..MaxLen} \cup {Fin(MaxSize + 2), NaN, PosInf, NegInf}
Terms == {0, 255}
Expecteds == {<<>>, <<65>>, <<65, 66>>, <<0, 0>>, <<255>>, <<66>>}
\* The widths asked of the bit-integer readers: every supported one and the
\* first unsupported one.
BitLens == 0..(MaxBitLen + 1)
\* The widths asked of them between the other calls.
FewBitLens == {0, 4, MaxBitLen + 1}

(***************************************************************************)
(* Construction and the operations                                         *)
(***************************************************************************)
\* new KaitaiStream(c.a, c.off) for some c of inputs
InitStream(inputs) ==
  \E c \in inputs :
    LET s == Construct(c.a, c.off) IN
      /\ buffer = s.buffer
      /\ byteOffset = s.byteOffset
      /\ byteLength = s.byteLength
      /\ viewOffset = s.viewOffset
      /\ pos = 0
      /\ bits = 0
      /\ bitsLeft = 0
      /\ last = Unobserved
      /\ run = FreshRun(0)
      /\ widths = [only |-> TRUE, sum |-> 0]

InitFrom(inputs) == InitStream(inputs) /\ call = NoCall /\ node = NoNode

Init == InitFrom(CtorInputs)

Seek(t) ==
  LET r == Return(NoRet, SeekPos(t), bits, bitsLeft) IN
    Step(r, [Did("seek", r) EXCEPT !.target = t], RunAfter(r), 0)

AlignToByte ==
  LET r == Return(NoRet, pos, 0, 0) IN
    Step(r, Did("alignToByte", r), RunAfter(r), 0)

IsEofCall ==
  LET r == Return(RetBool(IsEof), pos, bits, bitsLeft) IN
    Step(r, Did("isEof", r), run, 0)

EnsureBytesLeftCall(n) ==
  LET r == IF EnsureBytesLeft(pos, n)
             THEN Return(NoRet, pos, bits, bitsLeft)
             ELSE Throw(EOFError(n, Size - pos), pos, bits, bitsLeft)
  IN  Step(r, [Did("ensureBytesLeft", r) EXCEPT !.n = n], run, 0)

Fixed(op, W, little, type) ==
  LET r == ReadFixedAt(pos, W, little, type, bits, bitsLeft) IN
    Step(r, Did(op, r), RunAfter(r), W)

ReadS1 == Fixed("readS1", 1, FALSE, "signed")
ReadS2be == Fixed("readS2be", 2, FALSE, "signed")
ReadS4be == Fixed("readS4be", 4, FALSE, "signed")
ReadS2le == Fixed("readS2le", 2, TRUE, "signed")
ReadS4le == Fixed("readS4le", 4, TRUE, "signed")
ReadU1 == Fixed("readU1", 1, FALSE, "unsigned")
ReadU2be == Fixed("readU2be", 2, FALSE, "unsigned")
ReadU4be == Fixed("readU4be", 4, FALSE, "unsigned")
ReadU2le == Fixed("readU2le", 2, TRUE, "unsigned")
ReadU4le == Fixed("readU4le", 4, TRUE, "unsigned")
ReadF4be == Fixed("readF4be", 4, FALSE, "float")
ReadF8be == Fixed("readF8be", 8, FALSE, "float")
ReadF4le == Fixed("readF4le", 4, TRUE, "float")
ReadF8le == Fixed("readF8le", 8, TRUE, "float")

ReadS8be ==
  LET r == ReadS8beAt(pos, bits, bitsLeft) IN
    Step(r, Did("readS8be", r), RunAfter(r), 8)
ReadS8le ==
  LET r == ReadS8leAt(pos, bits, bitsLeft) IN
    Step(r, Did("readS8le", r), RunAfter(r), 8)
ReadU8be ==
  LET r == ReadU8beAt(pos, bits, bitsLeft) IN
    Step(r, Did("readU8be", r), RunAfter(r), 8)
ReadU8le ==
  LET r == ReadU8leAt(pos, bits, bitsLeft) IN
    Step(r, Did("readU8le", r), RunAfter(r), 8)

ReadBitsIntBe(n) ==
  LET r == ReadBitsIntBeAt(pos, n, bits, bitsLeft) IN
    Step(r, DidBits("readBitsIntBe", r, "be", n), RunAfterBits(r, "be", n), 0)

ReadBitsIntLe(n) ==
  LET r == ReadBitsIntLeAt(pos, n, bits, bitsLeft) IN
    Step(r, DidBits("readBitsIntLe", r, "le", n), RunAfterBits(r, "le", n), 0)

ReadBytes(len) ==
  LET r == ReadBytesNumAt(pos, len, bits, bitsLeft) IN
    Step(r, [Did("readBytes", r) EXCEPT !.n = Low32(len), !.len = len],
         RunAfter(r), 0)

ReadBytesFull ==
  LET r == ReadBytesFullAt(pos, bits, bitsLeft) IN
    Step(r, Did("readBytesFull", r), RunAfter(r), 0)

ReadBytesTerm(term, include, consume, eosError) ==
  LET r == ReadBytesTermAt(pos, term, include, consume, eosError, bits, bitsLeft) IN
    Step(r, [Did("readBytesTerm", r) EXCEPT !.term = term, !.include = include,
                                            !.consume = consume,
                                            !.eosError = eosError],
         RunAfter(r), 0)

EnsureFixedContents(expected) ==
  LET r == EnsureFixedContentsAt(pos, expected, bits, bitsLeft) IN
    Step(r, [Did("ensureFixedContents", r) EXCEPT !.expected = expected],
         RunAfter(r), 0)

Next ==
  \/ \E t \in SeekTargets : Seek(t)
  \/ AlignToByte
  \/ IsEofCall
  \/ \E n \in Lens : EnsureBytesLeftCall(n)
  \/ ReadS1 \/ ReadS2be \/ ReadS4be \/ ReadS8be
  \/ ReadS2le \/ ReadS4le \/ ReadS8le
  \/ ReadU1 \/ ReadU2be \/ ReadU4be \/ ReadU8be
  \/ ReadU2le \/ ReadU4le \/ ReadU8le
  \/ ReadF4be \/ ReadF8be \/ ReadF4le \/ ReadF8le
  \/ \E n \in FewBitLens : ReadBitsIntBe(n)
  \/ \E n \in FewBitLens : ReadBitsIntLe(n)
  \/ \E len \in LenArgs : ReadBytes(len)
  \/ ReadBytesFull
  \/ \E term \in Terms, include \in BOOLEAN, consume \in BOOLEAN,
        eosError \in BOOLEAN :
       ReadBytesTerm(term, include, consume, eosError)
  \/ \E expected \in Expecteds : EnsureFixedContents(expected)

Spec == Init /\ [][Next]_vars

(***************************************************************************)
(* The bit-integer readers on their own: every width, both bit orders,     *)
(* with alignToByte between runs.                                          *)
(***************************************************************************)
\* Longest buffer the bit-integer specification reads from.
MaxBitBytes == 5

\* Buffers of set bits, of SampleBytes from its packed flag byte 0x06 on, and
\* that byte alone.
BitBuffers ==
  {[i \in 1..MaxBitBytes |-> 255],
   SubSeq(SampleBytes, 6, Min(5 + MaxBitBytes, Len(SampleBytes))),
   SubSeq(SampleBytes, 6, 6)}

BitInputs ==
  {[a |-> [kind |-> "ArrayBuffer", buf |-> b], off |-> 0] : b \in BitBuffers}

InitBits == InitFrom(BitInputs)

NextBits ==
  \/ AlignToByte
  \/ \E n \in BitLens : ReadBitsIntBe(n)
  \/ \E n \in BitLens : ReadBitsIntLe(n)

SpecBits == InitBits /\ [][NextBits]_vars

(***************************************************************************)
(* The 64-bit readers on their own: eight bytes made of two halves.        *)
(***************************************************************************)
Halves ==
  {<<0, 0, 0, 0>>, <<255, 255, 255, 255>>, <<128, 0, 0, 0>>,
   <<127, 255, 255, 255>>, <<0, 0, 0, 128>>, <<1, 2, 3, 4>>}

Int64Inputs ==
  {[a |-> [kind |-> "ArrayBuffer", buf |-> h1 \o h2], off |-> 0] :
     h1 \in Halves, h2 \in Halves}

InitInt64 == InitFrom(Int64Inputs)

NextInt64 == ReadS8be \/ ReadS8le \/ ReadU8be \/ ReadU8le

SpecInt64 == InitInt64 /\ [][NextInt64]_vars

(***************************************************************************)
(* The static helpers on their own                                         *)
(***************************************************************************)
\* Longest array handed to byteArrayCompare.
MaxArrayLen == 2
\* Largest |a| and largest b handed to mod.
MaxMod == 8

\* The arrays rotated: every single byte, the empty array, two bytes.
RotateData == {<<v>> : v \in 0..255} \cup {<<>>, <<128, 1>>, <<255, 6>>}
RotateAmounts == 0..7

\* x is rotated by a, and what comes back by -a.
RotateCalls ==
  {[fn |-> "processRotateLeft", x |-> x, a |-> a, groupSize |-> 1,
    data |-> x, amount |-> a, step |-> 0, ok |-> TRUE] :
     x \in RotateData, a \in RotateAmounts}
  \cup
  {[fn |-> "processRotateLeft", x |-> x, a |-> 1, groupSize |-> g,
    data |-> x, amount |-> 1, step |-> 0, ok |-> TRUE] :
     x \in {<<128, 1>>}, g \in {0, 2}}

CompareBytes == {0, 1, 255}
CompareArrays ==
  UNION {[1..n -> CompareBytes] : n \in 0..MaxArrayLen}

\* x is compared with y, and then y with x; same: x and y are one array.
CompareCalls ==
  {[fn |-> "byteArrayCompare", x |-> x, y |-> y, same |-> FALSE,
    a |-> x, b |-> y, rets |-> <<>>] :
     x \in CompareArrays, y \in CompareArrays}
  \cup
  {[fn |-> "byteArrayCompare", x |-> x, y |-> x, same |-> TRUE,
    a |-> x, b |-> x, rets |-> <<>>] : x \in CompareArrays}

ModCalls ==
  {[fn |-> "mod", a |-> a, b |-> b, done |-> FALSE, out |-> Returned(0)] :
     a \in (0 - MaxMod)..MaxMod, b \in (0 - 2)..MaxMod}

EmptyStream == {[a |-> [kind |-> "ArrayBuffer", buf |-> <<>>], off |-> 0]}

InitStatic ==
  /\ InitStream(EmptyStream)
  /\ node = NoNode
  /\ call \in RotateCalls \cup CompareCalls \cup ModCalls

\* KaitaiStream.processRotateLeft(data, amount, groupSize), the client going
\* on with what was returned and the opposite amount
ProcessRotateLeftCall ==
  /\ call.fn = "processRotateLeft" /\ call.ok /\ call.step < 2
  /\ LET r == ProcessRotateLeft(call.data, call.amount, call.groupSize) IN
       call' = [call EXCEPT !.ok = r.ok,
                            !.data = IF r.ok THEN r.ret ELSE @,
                            !.amount = 0 - @,
                            !.step = @ + 1]
  /\ UNCHANGED <<buffer, byteOffset, byteLength, viewOffset, pos, bits,
                 bitsLeft, last, run, widths, node>>

\* KaitaiStream.byteArrayCompare(a, b), the client going on with the
\* arguments exchanged
ByteArrayCompareCall ==
  /\ call.fn = "byteArrayCompare" /\ Len(call.rets) < 2
  /\ call' = [call EXCEPT
                !.rets = Append(@, ByteArrayCompare(call.a, call.b, call.same)),
                !.a = call.b,
                !.b = call.a]
  /\ UNCHANGED <<buffer, byteOffset, byteLength, viewOffset, pos, bits,
                 bitsLeft, last, run, widths, node>>

\* KaitaiStream.mod(a, b)
ModCall ==
  /\ call.fn = "mod" /\ ~call.done
  /\ call' = [call EXCEPT !.done = TRUE, !.out = Mod(call.a, call.b)]
  /\ UNCHANGED <<buffer, byteOffset, byteLength, viewOffset, pos, bits,
                 bitsLeft, last, run, widths, node>>

NextStatic == ProcessRotateLeftCall \/ ByteArrayCompareCall \/ ModCall

SpecStatic == InitStatic /\ [][NextStatic]_vars

(***************************************************************************)
(* A parser node: new Page(io, parent, root)                               *)
(***************************************************************************)
\* Values of a node reference: no value yet, null, the node itself, others.
Undefined == "undefined"
Null == "null"
This == "this"
\* An argument left out of the call.
Absent == "absent"

ParentArgs == {Absent, Null, "parentNode"}
RootArgs == {Absent, Null, "rootNode", "parentNode"}

\* A parameter with the default value null: the default stands in for an
\* argument that is absent.
OrNull(arg) == IF arg = Absent THEN Null ELSE arg

\* this._root = _root with the node never made its own root
RootKept(root) == root

\* _root ?? this
RootOrThis(root) == IF root \in {Null, Undefined} THEN This ELSE root

\* new ValidationNotEqualError(expected, actual)
ValidationNotEqualError(e, a) ==
  [NoErr EXCEPT !.kind = "ValidationNotEqualError", !.expected = e,
                !.actual = a]

\* A number that fits one digit, as an integer.
NumInt(x) == x[1]

\* An Ogg page: sync code, version, flags, granule position, serial, sequence
\* number, checksum, two segments of lengths 1 and 0, and a byte more.
PageBytes(flags) ==
  <<79, 103, 103, 83, 0, flags, 1, 0, 0, 0, 0, 0, 0, 0, 1, 2, 3, 4,
    0, 0, 0, 0, 9, 9, 9, 9, 2, 1, 0, 65, 66>>

FlagBytes == {0, 2, 4, 6, 255}

\* The buffers a page is read from: pages cut short anywhere, a wrong sync
\* code, a wrong version.
PageBuffers ==
  {SubSeq(PageBytes(f), 1, n) : f \in FlagBytes, n \in 0..Len(PageBytes(0))}
  \cup {<<79, 103, 103, 84, 0, 6>>, <<79, 103, 103, 83, 1, 6>>}

PageInputs ==
  {[a |-> [kind |-> "ArrayBuffer", buf |-> b], off |-> 0] : b \in PageBuffers}

\* The node before its constructor has run.
NewNode(parentArg, rootArg) ==
  [pc |-> "new", parentArg |-> parentArg, rootArg |-> rootArg,
   _io |-> Undefined, _parent |-> Undefined, _root |-> Undefined,
   reads |-> 0, err |-> NoErr,
   syncCode |-> <<>>, version |-> <<>>, reserved1 |-> NumZero,
   isEndOfStream |-> FALSE, isBeginningOfStream |-> FALSE,
   isContinuation |-> FALSE, granulePos |-> NumZero,
   bitstreamSerial |-> NumZero, pageSeqNum |-> NumZero, crc32 |-> NumZero,
   numSegments |-> 0, lenSegments |-> <<>>, segments |-> <<>>,
   flagsAt |-> 0, flagsAligned |-> FALSE, returned |-> <<>>,
   cls |-> "Page", pages |-> 0, oggParent |-> Null, oggRoot |-> Null,
   iterFrom |-> 0, stalled |-> FALSE]

InitPage ==
  /\ InitStream(PageInputs)
  /\ call = NoCall
  /\ node \in {NewNode(pa, ra) : pa \in ParentArgs, ra \in RootArgs}

\* A step of the node: the stream call it makes (outcome r) moves the
\* cursor, the node becomes n.
NodeStep(r, n) ==
  /\ pos' = r.pos
  /\ bits' = r.bits
  /\ bitsLeft' = r.bitsLeft
  /\ node' = n
  /\ UNCHANGED <<buffer, byteOffset, byteLength, viewOffset, last, run,
                 widths, call>>

\* A step of the node that makes no stream call.
Here == Return(NoRet, pos, bits, bitsLeft)

\* The exception e leaves read() and the constructor.
Failed(e) == [node EXCEPT !.pc = "failed", !.err = e]

\* constructor(protected _io, protected _parent = null, protected _root = null)
KaitaiImplStore ==
  /\ node.pc = "new"
  /\ NodeStep(Here, [node EXCEPT !.pc = "stored", !._io = "io",
                                 !._parent = OrNull(node.parentArg),
                                 !._root = OrNull(node.rootArg)])

\* this._root = _root ?? this
KaitaiImplRoot ==
  /\ node.pc = "stored"
  /\ NodeStep(Here, [node EXCEPT !.pc = "rooted",
                                 !._root = RootOrThis(node._root)])

\* this.read()
KaitaiImplRead ==
  /\ node.pc = "rooted"
  /\ NodeStep(Here, [node EXCEPT !.pc = "syncCode", !.reads = @ + 1])

\* this.syncCode = this._io.readBytes(4), compared with "OggS"
PageReadSyncCode ==
  /\ node.pc = "syncCode"
  /\ LET r == ReadBytesAt(pos, 4, bits, bitsLeft)
         magic == <<79, 103, 103, 83>>
     IN  NodeStep(r,
           IF ~r.ok THEN Failed(r.err)
           ELSE IF ByteArrayCompare(r.ret.bytes, magic, FALSE) # 0
             THEN [Failed(ValidationNotEqualError(magic, r.ret.bytes))
                     EXCEPT !.syncCode = r.ret.bytes]
           ELSE [node EXCEPT !.pc = "version", !.syncCode = r.ret.bytes])

\* this.version = this._io.readBytes(1), compared with [0]
PageReadVersion ==
  /\ node.pc = "version"
  /\ LET r == ReadBytesAt(pos, 1, bits, bitsLeft) IN
       NodeStep(r,
         IF ~r.ok THEN Failed(r.err)
         ELSE IF ByteArrayCompare(r.ret.bytes, <<0>>, FALSE) # 0
           THEN [Failed(ValidationNotEqualError(<<0>>, r.ret.bytes))
                   EXCEPT !.version = r.ret.bytes]
         ELSE [node EXCEPT !.pc = "reserved1", !.version = r.ret.bytes])

\* this.reserved1 = this._io.readBitsIntBe(5)
PageReadReserved1 ==
  /\ node.pc = "reserved1"
  /\ LET r == ReadBitsIntBeAt(pos, 5, bits, bitsLeft) IN
       NodeStep(r,
         IF ~r.ok THEN Failed(r.err)
         ELSE [node EXCEPT !.pc = "isEndOfStream", !.reserved1 = r.ret.num,
                           !.flagsAt = pos, !.flagsAligned = (bitsLeft = 0),
                           !.returned = <<r.ret.num>>])

\* this.<flag> = this._io.readBitsIntBe(1) != 0, for the three flags in turn
PageReadFlag ==
  /\ node.pc \in {"isEndOfStream", "isBeginningOfStream", "isContinuation"}
  /\ LET r == ReadBitsIntBeAt(pos, 1, bits, bitsLeft)
         set == r.ret.num # NumZero
         got == [node EXCEPT !.returned = Append(@, r.ret.num)]
     IN  NodeStep(r,
           IF ~r.ok THEN Failed(r.err)
           ELSE IF node.pc = "isEndOfStream"
             THEN [got EXCEPT !.pc = "isBeginningOfStream",
                              !.isEndOfStream = set]
           ELSE IF node.pc = "isBeginningOfStream"
             THEN [got EXCEPT !.pc = "isContinuation",
                              !.isBeginningOfStream = set]
           ELSE [got EXCEPT !.pc = "alignToByte", !.isContinuation = set])

\* this._io.alignToByte()
PageAlignToByte ==
  /\ node.pc = "alignToByte"
  /\ NodeStep(Return(NoRet, pos, 0, 0), [node EXCEPT !.pc = "granulePos"])

\* this.granulePos = this._io.readU8le()
PageReadGranulePos ==
  /\ node.pc = "granulePos"
  /\ \E r \in {ReadU8leAt(pos, bits, bitsLeft)} :
       NodeStep(r,
         IF ~r.ok THEN Failed(r.err)
         ELSE [node EXCEPT !.pc = "bitstreamSerial",
                           !.granulePos = r.ret.num])

\* this.bitstreamSerial, this.pageSeqNum, this.crc32 = this._io.readU4le()
PageReadU4le ==
  /\ node.pc \in {"bitstreamSerial", "pageSeqNum", "crc32"}
  /\ LET r == ReadU4leAt(pos, bits, bitsLeft) IN
       NodeStep(r,
         IF ~r.ok THEN Failed(r.err)
         ELSE IF node.pc = "bitstreamSerial"
           THEN [node EXCEPT !.pc = "pageSeqNum",
                             !.bitstreamSerial = r.ret.num]
         ELSE IF node.pc = "pageSeqNum"
           THEN [node EXCEPT !.pc = "crc32", !.pageSeqNum = r.ret.num]
         ELSE [node EXCEPT !.pc = "numSegments", !.crc32 = r.ret.num])

\* this.numSegments = this._io.readU1()
PageReadNumSegments ==
  /\ node.pc = "numSegments"
  /\ LET r == ReadFixedAt(pos, 1, FALSE, "unsigned", bits, bitsLeft) IN
       NodeStep(r,
         IF ~r.ok THEN Failed(r.err)
         ELSE [node EXCEPT !.pc = "lenSegments",
                           !.numSegments = NumInt(r.ret.num)])

\* for (i < numSegments) this.lenSegments[i] = this._io.readU1(): one turn of
\* the loop, or its end
PageReadLenSegment ==
  /\ node.pc = "lenSegments"
  /\ IF Len(node.lenSegments) >= node.numSegments
       THEN NodeStep(Here, [node EXCEPT !.pc = "segments"])
       ELSE LET r == ReadFixedAt(pos, 1, FALSE, "unsigned", bits, bitsLeft) IN
            NodeStep(r,
              IF ~r.ok THEN Failed(r.err)
              ELSE [node EXCEPT !.lenSegments = Append(@, NumInt(r.ret.num))])

\* for (i < numSegments) this.segments[i] = this._io.readBytes(lenSegments[i]):
\* one turn of the loop, or its end and the end of read() and the constructor
PageReadSegment ==
  /\ node.pc = "segments"
  /\ IF Len(node.segments) >= node.numSegments
       THEN NodeStep(Here, [node EXCEPT !.pc = "done"])
       ELSE LET r == ReadBytesAt(pos, node.lenSegments[Len(node.segments) + 1],
                                 bits, bitsLeft) IN
            NodeStep(r,
              IF ~r.ok THEN Failed(r.err)
              ELSE [node EXCEPT !.segments = Append(@, r.ret.bytes)])

NextPage ==
  \/ KaitaiImplStore
  \/ KaitaiImplRoot
  \/ KaitaiImplRead
  \/ PageReadSyncCode
  \/ PageReadVersion
  \/ PageReadReserved1
  \/ PageReadFlag
  \/ PageAlignToByte
  \/ PageReadGranulePos
  \/ PageReadU4le
  \/ PageReadNumSegments
  \/ PageReadLenSegment
  \/ PageReadSegment

SpecPage == InitPage /\ [][NextPage]_vars

(***************************************************************************)
(* VlqBase128Be and the track events of a MIDI file                        *)
(***************************************************************************)
\* Group.hasNext that would never ask for another group
HasNextNever(b) == FALSE

\* Group.hasNext: (this.b & 128) != 0
HasNext(b) == And32(b, 128) # 0

\* Group.value: this.b & 127
GroupValue(b) == And32(b, 127)

\* this.last >= i ? this.groups[this.last - i].value << (7 * i) : 0, for
\* groups the b of the groups read (1-based here)
VlqTerm(groups, i) ==
  IF Len(groups) - 1 >= i
    THEN SignExt32(Shl32(GroupValue(groups[Len(groups) - i]), 7 * i))
    ELSE NumZero

RECURSIVE VlqSum(_, _)
\* The sum of the value getter up to its term i: the last group's value and
\* the terms 1..i, added left to right.
VlqSum(groups, i) ==
  IF i = 0 THEN SignExt32(GroupValue(groups[Len(groups)]))
  ELSE CHOOSE sum \in {NumAdd(a, b) : a \in {VlqSum(groups, i - 1)},
                                      b \in {VlqTerm(groups, i)}} : TRUE

\* VlqBase128Be.value
VlqValue(groups) == VlqSum(groups, 7)

\* A node of the MIDI parsers: cls is the class whose read() was called
\* first, vlqFor the field the VlqBase128Be being read is for.
MidiNode(cls, pc) ==
  [pc |-> pc, cls |-> cls, err |-> NoErr,
   groups |-> <<>>, vlqFor |-> "none", vlqFrom |-> 0,
   value |-> NumZero, hasValue |-> FALSE,
   eventHeader |-> 0, events |-> 0, iterFrom |-> 0, stalled |-> FALSE]

\* Where read() goes on once the VlqBase128Be for a field is constructed.
AfterVlq(vlqFor) ==
  CASE vlqFor = "vTime" -> "TrackEvent.eventHeader"
    [] vlqFor = "MetaEventBody.len" -> "MetaEventBody.body"
    [] vlqFor = "SysexEventBody.len" -> "SysexEventBody.data"
    [] OTHER -> "done"

\* new VlqBase128Be(io, ...) begins: this.groups = []
BeginVlq(n, vlqFor) ==
  [n EXCEPT !.pc = "VlqBase128Be.group", !.groups = <<>>,
            !.vlqFor = vlqFor, !.vlqFrom = pos]

\* VlqBase128Be.read of a VlqBase128Be constructed on its own
VlqBase128BeRead ==
  /\ node.pc = "VlqBase128Be.read"
  /\ NodeStep(Here, BeginVlq(node, "none"))

\* One turn of the do-while loop: group = new Group(...), whose read() is
\* this.b = this._io.readU1(); this.groups.push(group); group.hasNext
VlqBase128BeGroup ==
  /\ node.pc = "VlqBase128Be.group"
  /\ LET r == ReadFixedAt(pos, 1, FALSE, "unsigned", bits, bitsLeft)
         b == NumInt(r.ret.num)
     IN  NodeStep(r,
           IF ~r.ok THEN Failed(r.err)
           ELSE IF HasNext(b) THEN [node EXCEPT !.groups = Append(@, b)]
           ELSE [node EXCEPT !.groups = Append(@, b),
                             !.pc = AfterVlq(node.vlqFor)])

\* get value() of a VlqBase128Be constructed on its own, first call
VlqBase128BeValue ==
  /\ node.pc = "done" /\ node.cls = "VlqBase128Be" /\ ~node.hasValue
  /\ NodeStep(Here, [node EXCEPT !.hasValue = TRUE,
                                 !.value = VlqValue(node.groups)])

\* TrackEvents.read: this.event = []
TrackEventsRead ==
  /\ node.pc = "TrackEvents.read"
  /\ NodeStep(Here, [node EXCEPT !.pc = "TrackEvents.while", !.events = 0])

\* while (!this._io.isEof()): the loop ends, or new TrackEvent(...) begins
\* with this.vTime = new VlqBase128Be(this._io, this, null)
TrackEventsWhile ==
  /\ node.pc = "TrackEvents.while"
  /\ NodeStep(Here,
       IF IsEof THEN [node EXCEPT !.pc = "done"]
       ELSE BeginVlq([node EXCEPT !.iterFrom = pos], "vTime"))

\* this.eventHeader = this._io.readU1(), and the two ifs on it
TrackEventHeader ==
  /\ node.pc = "TrackEvent.eventHeader"
  /\ LET r == ReadFixedAt(pos, 1, FALSE, "unsigned", bits, bitsLeft)
         h == NumInt(r.ret.num)
     IN  NodeStep(r,
           IF ~r.ok THEN Failed(r.err)
           ELSE [node EXCEPT !.eventHeader = h,
                   !.pc = IF h = 255 THEN "MetaEventBody.metaType"
                          ELSE IF h = 240 THEN "SysexEventBody.len"
                          ELSE "TrackEvent.switch"])

\* MetaEventBody.read: this.metaType = this._io.readU1(), then
\* this.len = new VlqBase128Be(this._io, this, null)
MetaEventBodyType ==
  /\ node.pc = "MetaEventBody.metaType"
  /\ LET r == ReadFixedAt(pos, 1, FALSE, "unsigned", bits, bitsLeft) IN
       NodeStep(r, IF ~r.ok THEN Failed(r.err)
                   ELSE BeginVlq(node, "MetaEventBody.len"))

\* SysexEventBody.read: this.len = new VlqBase128Be(this._io, this, null)
SysexEventBodyLen ==
  /\ node.pc = "SysexEventBody.len"
  /\ NodeStep(Here, BeginVlq(node, "SysexEventBody.len"))

\* this.body / this.data = this._io.readBytes(this.len.value)
EventBodyBytes ==
  /\ node.pc \in {"MetaEventBody.body", "SysexEventBody.data"}
  /\ \E len \in {VlqValue(node.groups)} :
       LET r == ReadBytesNumAt(pos, len, bits, bitsLeft) IN
       NodeStep(r, IF ~r.ok THEN Failed(r.err)
                   ELSE [node EXCEPT !.pc = "TrackEvent.switch"])

\* eventType(): this.eventHeader & 240
EventType(eventHeader) == And32(eventHeader, 240)

\* The readU1() calls of the read() of the event body class for an event
\* type: two for PitchBend, NoteOn, PolyphonicPressure, Controller and
\* NoteOff, one for ChannelPressure and ProgramChange, no class otherwise.
EventBodyReads(type) ==
  IF type \in {224, 144, 160, 176, 128} THEN 2
  ELSE IF type \in {208, 192} THEN 1
  ELSE 0

RECURSIVE ReadU1Times(_, _, _, _)
\* k successive readU1() calls: the outcome of the last one made.
ReadU1Times(k, p, b, bl) ==
  IF k = 0 THEN Return(NoRet, p, b, bl)
  ELSE LET r == ReadFixedAt(p, 1, FALSE, "unsigned", b, bl) IN
       IF ~r.ok \/ k = 1 THEN r ELSE ReadU1Times(k - 1, r.pos, b, bl)

\* switch (this.eventType()): this.eventBody = new ...Event(...); the
\* TrackEvent is complete and TrackEvents.read pushes it
TrackEventSwitch ==
  /\ node.pc = "TrackEvent.switch"
  /\ LET r == ReadU1Times(EventBodyReads(EventType(node.eventHeader)),
                          pos, bits, bitsLeft)
     IN  NodeStep(r,
           IF ~r.ok THEN Failed(r.err)
           ELSE [node EXCEPT !.pc = "TrackEvents.while",
                             !.events = @ + 1,
                             !.stalled = @ \/ r.pos <= node.iterFrom])

\* Ogg.read: this.pages = []
OggRead ==
  /\ node.pc = "Ogg.read"
  /\ NodeStep(Here, [node EXCEPT !.pc = "Ogg.while", !.pages = 0])

\* while (!this._io.isEof()): the loop ends, or
\* new Page(this._io, this._parent, this._root) begins
OggWhile ==
  /\ node.pc = "Ogg.while"
  /\ NodeStep(Here,
       IF IsEof THEN [node EXCEPT !.pc = "Ogg.done"]
       ELSE [NewNode(node.oggParent, node.oggRoot)
               EXCEPT !.cls = "Ogg", !.pages = node.pages,
                      !.oggParent = node.oggParent,
                      !.oggRoot = node.oggRoot,
                      !.iterFrom = pos, !.stalled = node.stalled])

\* this.pages.push(<the page constructed>)
OggPush ==
  /\ node.pc = "done" /\ node.cls = "Ogg"
  /\ NodeStep(Here, [node EXCEPT !.pc = "Ogg.while", !.pages = @ + 1,
                                 !.stalled = @ \/ pos <= node.iterFrom])

\* Most groups of a quantity the parsers are given.
MaxGroups == 9

\* Bytes with the continuation bit, and bytes without it.
ContBytes == {128, 129, 136, 255}
LastBytes == {0, 72, 127}

\* Quantities of 1..MaxGroups groups, some followed by a byte more, and
\* runs of continuation bytes that the buffer cuts short.
VlqBuffers ==
  {[i \in 1..k |-> IF i = k THEN t ELSE IF i = 1 THEN c1 ELSE c2] :
     k \in 1..MaxGroups, c1 \in ContBytes, c2 \in ContBytes, t \in LastBytes}
  \cup {<<129, 72, 129>>, <<0, 0>>, <<>>}
  \cup {[i \in 1..k |-> 129] : k \in 1..MaxGroups}

VlqInputs ==
  {[a |-> [kind |-> "ArrayBuffer", buf |-> b], off |-> 0] : b \in VlqBuffers}

\* Track events: note on, program change after a two-byte delta time, end
\* of track, a track name, a system-exclusive message, a data byte where a
\* status byte belongs, a meta event with a five-group length, pitch bend.
MidiEvents ==
  {<<0, 144, 60, 100>>, <<129, 72, 192, 5>>, <<0, 255, 47, 0>>,
   <<0, 255, 3, 2, 65, 66>>, <<0, 240, 1, 247>>, <<0, 16>>,
   <<0, 255, 1, 136, 128, 128, 128, 0>>, <<0, 224, 0, 64>>}

\* Two events, cut short anywhere.
MidiData ==
  UNION {{SubSeq(e1 \o e2, 1, n) : n \in 0..Len(e1 \o e2)} :
           e1 \in MidiEvents, e2 \in MidiEvents}

\* new KaitaiStream(this._raw_events): a Uint8Array, taken up the way a
\* DataView is
MidiInputs ==
  {[a |-> [kind |-> "DataView", buf |-> <<77>> \o d, byteOffset |-> 1,
           byteLength |-> Len(d)], off |-> 0] : d \in MidiData}

\* One page with two segments after another, cut short anywhere.
OggBuffers ==
  LET two == SubSeq(PageBytes(6), 1, Len(PageBytes(6)) - 1) \o PageBytes(2)
  IN  {SubSeq(two, 1, n) : n \in 0..Len(two)}

OggInputs ==
  {[a |-> [kind |-> "ArrayBuffer", buf |-> b], off |-> 0] : b \in OggBuffers}

\* new Ogg(io): read() is about to run, the node is its own root
OggNode ==
  [NewNode(Absent, Absent) EXCEPT !.pc = "Ogg.read", !.cls = "Ogg",
                                  !.oggParent = Null, !.oggRoot = "rootNode"]

InitParsers ==
  /\ call = NoCall
  /\ \/ /\ InitStream(VlqInputs)
        /\ node = MidiNode("VlqBase128Be", "VlqBase128Be.read")
     \/ /\ InitStream(MidiInputs)
        /\ node = MidiNode("TrackEvents", "TrackEvents.read")
     \/ /\ InitStream(OggInputs)
        /\ node = OggNode

NextParsers ==
  \/ VlqBase128BeRead
  \/ VlqBase128BeGroup
  \/ VlqBase128BeValue
  \/ TrackEventsRead
  \/ TrackEventsWhile
  \/ TrackEventHeader
  \/ MetaEventBodyType
  \/ SysexEventBodyLen
  \/ EventBodyBytes
  \/ TrackEventSwitch
  \/ OggRead
  \/ OggWhile
  \/ OggPush
  \/ NextPage

SpecParsers == InitParsers /\ [][NextParsers]_vars

\* The parsers run on: a step that can be taken is taken.
SpecLoops == SpecParsers /\ WF_vars(NextParsers)

(***************************************************************************)
(* Properties                                                              *)
(***************************************************************************)
\* C1: after any sequence of stream operations, whether each succeeds or
\* fails, 0 <= pos <= size.
C1_PosWithinSize == 0 <= pos /\ pos <= Size

\* The offset from p of the first byte equal to term, Size - p when none is.
TermOffset(p, term) == ScanTerm(0, Size - p, p, term)

\* C2: readBytesTerm that finds its terminator i bytes from pos leaves the
\* cursor at pos + i when consume is false and at pos + i + 1 when consume is
\* true, whatever include is.
C2_TermCursor ==
  (/\ last.op = "readBytesTerm"
   /\ last.ok
   /\ TermOffset(last.prePos, last.term) < Size - last.prePos)
    => pos = last.prePos + TermOffset(last.prePos, last.term)
               + (IF last.consume THEN 1 ELSE 0)

\* The documented width of a fixed-width reader, 0 for any other operation.
DocWidth(op) ==
  CASE op \in {"readU1", "readS1"} -> 1
    [] op \in {"readU2be", "readU2le", "readS2be", "readS2le"} -> 2
    [] op \in {"readU4be", "readU4le", "readS4be", "readS4le",
               "readF4be", "readF4le"} -> 4
    [] op \in {"readU8be", "readU8le", "readS8be", "readS8le",
               "readF8be", "readF8le"} -> 8
    [] OTHER -> 0

\* C3: a fixed-width reader of width W that returns has advanced pos by
\* exactly W, and after a sequence of successful fixed-width reads pos is the
\* sum of the widths read.
C3_FixedAdvance ==
  /\ (DocWidth(last.op) > 0 /\ last.ok) => pos = last.prePos + DocWidth(last.op)
  /\ widths.only => pos = widths.sum

\* A 4-byte read that returned after other fixed-width reads had moved the
\* cursor, all of them successful.
C3_Witness ==
  /\ last.op = "readU4be" /\ last.ok /\ last.prePos > 1
  /\ widths.only /\ widths.sum = last.prePos + 4

\* The byte-aligned reads: the fixed-width readers and readBytes.
ByteAligned(op) == DocWidth(op) > 0 \/ op = "readBytes"

\* C4 as stated: after any successful byte-aligned read bitsLeft = 0 and
\* bits = 0, even when the read follows a bit-integer read that left bits in
\* the accumulator.
C4_AlignedAfterByteRead ==
  (ByteAligned(last.op) /\ last.ok) => (bitsLeft = 0 /\ bits = 0)

\* C4 as amended: a successful byte-aligned read leaves bits and bitsLeft as
\* they were before the call, so they are 0 after it exactly when they were
\* 0 before it.
C4_ByteReadKeepsBits ==
  (ByteAligned(last.op) /\ last.ok)
    => /\ bits = last.preBits
       /\ bitsLeft = last.preBitsLeft
       /\ (bitsLeft = 0 /\ bits = 0) <=> (last.preBitsLeft = 0 /\ last.preBits = 0)

\* A byte read that returned although a bit-integer read had left bits held.
C4_Witness ==
  /\ last.op \in {"readU1", "readBytes"} /\ last.ok /\ pos > last.prePos
  /\ last.preBitsLeft > 0 /\ last.preBits # 0

\* Byte k (from 0) of the stream.
StreamByte(k) == buffer[byteOffset + k + 1]
\* Bit j of the stream, the bytes taken most significant bit first.
StreamBitBe(j) == (StreamByte(j \div 8) \div (2 ^ (7 - (j % 8)))) % 2
\* Bit j of the stream, the bytes taken least significant bit first.
StreamBitLe(j) == (StreamByte(j \div 8) \div (2 ^ (j % 8))) % 2

\* Bit e (of weight 2^e) of the n-bit integer that starts at bit from.
WantedBit(order, from, n, e) ==
  IF order = "be" THEN StreamBitBe(from + n - 1 - e) ELSE StreamBitLe(from + e)

RECURSIVE WantedLimb(_, _, _, _, _)
\* Up to k bits of it, from bit e on, as a number.
WantedLimb(order, from, n, e, k) ==
  IF k = 0 \/ e >= n THEN 0
  ELSE WantedBit(order, from, n, e) + 2 * WantedLimb(order, from, n, e + 1, k - 1)

\* The unsigned n-bit integer (n <= 32) at bit from of the stream.
Wanted(order, from, n) ==
  [j \in LimbIdx |-> IF j <= 2 THEN WantedLimb(order, from, n, 16 * (j - 1), 16)
                     ELSE 0]

\* C5: in a run of successful readBitsIntBe calls from a byte-aligned stream,
\* each of 0..32 bits, every result is the unsigned integer formed by the
\* next n bits of the stream bytes taken MSB-first.
C5_BitsBe ==
  (last.op = "readBitsIntBe" /\ last.ok /\ last.pure /\ last.n \in 0..32)
    => last.ret.num = Wanted("be", last.bitFrom, last.n)

\* C6: in a run of successful readBitsIntLe calls from a byte-aligned stream,
\* each of 0..32 bits, every result is the unsigned integer whose bit t is
\* the stream's bit (bits read before + t), bytes taken LSB-first.
C6_BitsLe ==
  (last.op = "readBitsIntLe" /\ last.ok /\ last.pure /\ last.n \in 0..32)
    => last.ret.num = Wanted("le", last.bitFrom, last.n)

\* The unsigned 32-bit value of the four bytes at p.
U32At(p, little) ==
  IntFromBytes([j \in 1..4 |-> StreamByte(p + j - 1)], little, FALSE)

\* C7: readBitsIntBe(32) and readBitsIntLe(32) on a byte-aligned stream
\* return the unsigned value of the next four bytes, a number in 0..2^32-1.
C7_Bits32Unsigned ==
  (/\ last.op \in {"readBitsIntBe", "readBitsIntLe"}
   /\ last.ok /\ last.n = 32
   /\ last.preBitsLeft = 0 /\ last.preBits = 0)
    => last.ret.num = U32At(last.prePos, last.op = "readBitsIntLe")

\* C8: readS8be and readS8le return the two's-complement value of the next
\* eight bytes: u when the sign bit is clear, u - 2^64 when it is set.
C8_Signed64 ==
  (last.op \in {"readS8be", "readS8le"} /\ last.ok)
    => last.ret.num =
         IntFromBytes([j \in 1..8 |-> StreamByte(last.prePos + j - 1)],
                      last.op = "readS8le", TRUE)

\* C9: ensureBytesLeft(n) returns iff pos + n <= size, and otherwise throws
\* EOFError with bytesRequired = n and bytesAvailable = size - pos.
C9_EnsureBytesLeft ==
  last.op = "ensureBytesLeft"
    => /\ last.ok <=> (last.prePos + last.n <= Size)
       /\ ~last.ok => last.err = EOFError(last.n, Size - last.prePos)

\* ensureBytesLeft refusing, away from the start of the stream, a run that
\* overshoots the end by one byte.
C9_Witness ==
  /\ last.op = "ensureBytesLeft" /\ ~last.ok
  /\ last.prePos > 0 /\ last.prePos + last.n = Size + 1
  /\ last.err.bytesAvailable = last.n - 1

\* C10: in every reachable state isEof() is true iff pos = size and
\* bitsLeft = 0.
C10_IsEofIff == IsEof <=> (pos = Size /\ bitsLeft = 0)

\* clamp(v, 0, size)
Clamp(v) == IF v < 0 THEN 0 ELSE IF v > Size THEN Size ELSE v

\* C11: after seek(p), pos is clamp(p, 0, size) for a finite p and 0 for NaN,
\* +Infinity and -Infinity.
C11_SeekClamps ==
  last.op = "seek"
    => pos = (IF last.target.kind = "finite" THEN Clamp(last.target.v) ELSE 0)

\* No byte of [p, size) equals term.
NoTermFrom(p, term) == \A k \in p..(Size - 1) : StreamByte(k) # term

\* C12: readBytesTerm with no byte equal to term in [pos, size) returns the
\* size - pos bytes of [pos, size) and leaves pos = size when eosError is
\* false, and fails, returning nothing, when eosError is true.
C12_TermAbsent ==
  (last.op = "readBytesTerm" /\ NoTermFrom(last.prePos, last.term))
    => IF last.eosError
         THEN ~last.ok /\ last.ret = NoRet
         ELSE /\ last.ok
              /\ pos = Size
              /\ Len(last.ret.bytes) = Size - last.prePos
              /\ \A k \in 1..Len(last.ret.bytes) :
                   last.ret.bytes[k] = StreamByte(last.prePos + k - 1)

\* C13: a successful readBitsIntBe(n) or readBitsIntLe(n), 0 <= n <= 32,
\* makes 8 * pos - bitsLeft larger by exactly n.
C13_BitsConsumed ==
  (/\ last.op \in {"readBitsIntBe", "readBitsIntLe"}
   /\ last.ok /\ last.n \in 0..32)
    => 8 * pos - bitsLeft = (8 * last.prePos - last.preBitsLeft) + last.n

\* A bit-integer read, in a run of reads of one bit order, that found bits
\* held, used them up and borrowed two more bytes.
C13_Witness ==
  /\ last.op \in {"readBitsIntBe", "readBitsIntLe"} /\ last.ok /\ last.pure
  /\ last.preBitsLeft = 3 /\ last.n = 13 /\ pos = last.prePos + 2
  /\ bitsLeft = 6

\* The bytes of [p, p + n) of the stream.
StreamRun(p, n) == [k \in 1..n |-> StreamByte(p + k - 1)]

\* C15: ensureFixedContents(expected) reads |expected| bytes (failing with
\* EOFError when the stream has fewer); if any byte differs it fails with
\* UnexpectedDataError(expected, actual); otherwise it returns the bytes
\* read, which equal expected, and pos has advanced by |expected|.
C15_FixedContents ==
  last.op = "ensureFixedContents"
    => IF last.prePos + Len(last.expected) > Size
         THEN ~last.ok /\ last.err.kind = "EOFError"
       ELSE IF StreamRun(last.prePos, Len(last.expected)) = last.expected
         THEN /\ last.ok
              /\ last.ret = RetBytes(last.expected)
              /\ pos = last.prePos + Len(last.expected)
       ELSE /\ ~last.ok
            /\ last.err =
                 UnexpectedDataError(last.expected,
                                     StreamRun(last.prePos, Len(last.expected)))

\* ensureFixedContents refusing two bytes of which the first is as expected.
C15_Witness ==
  /\ last.op = "ensureFixedContents" /\ ~last.ok
  /\ last.err.kind = "UnexpectedDataError"
  /\ Len(last.expected) = 2
  /\ last.err.actual[1] = last.expected[1]
  /\ last.err.actual[2] # last.expected[2]


\* The unsigned halves of the eight bytes at p: hi the more significant one
\* for the byte order, lo the other one.
HighHalf(p, little) == U32At(IF little THEN p + 4 ELSE p, little)
LowHalf(p, little) == U32At(IF little THEN p ELSE p + 4, little)

\* high * 2^32 + low as an exact integer
ExactJoin(p, little) == NumAdd(NumMul2p32(HighHalf(p, little)), LowHalf(p, little))

\* 2^53 as a number
TwoTo53 == [j \in LimbIdx |-> IF j = 4 THEN 32 ELSE 0]

\* a <= b for numbers
NumLeq(a, b) == ~NumNegative(NumSub(b, a))

\* C17 as stated: readU8be and readU8le return exactly high * 2^32 + low and
\* advance pos by 8.
C17_U8Exact ==
  (last.op \in {"readU8be", "readU8le"} /\ last.ok)
    => /\ last.ret.num = ExactJoin(last.prePos, last.op = "readU8le")
       /\ pos = last.prePos + 8

\* C17, amended: readU8be and readU8le return the double nearest to
\* high * 2^32 + low (ties to even), which is high * 2^32 + low itself
\* whenever that is at most 2^53, and advance pos by 8.
C17_U8Rounded ==
  (last.op \in {"readU8be", "readU8le"} /\ last.ok)
    => LET exact == ExactJoin(last.prePos, last.op = "readU8le") IN
       /\ last.ret.num = RoundDouble(exact)
       /\ NumLeq(exact, TwoTo53) => last.ret.num = exact
       /\ pos = last.prePos + 8

\* readU8le on 01 02 03 04 FF FF FF FF: the halves are told apart and the
\* value 2^64 - 2^32 + 0x04030201 is rounded to 2^64 - 2^32 + 0x04030000.
C17_Witness ==
  /\ last.op = "readU8le" /\ last.ok /\ pos = last.prePos + 8
  /\ HighHalf(last.prePos, TRUE)[1] = 65535
  /\ HighHalf(last.prePos, TRUE)[2] = 65535
  /\ LowHalf(last.prePos, TRUE)[1] = 513
  /\ last.ret.num # ExactJoin(last.prePos, TRUE)

\* C16: processRotateLeft(processRotateLeft(x, a, 1), -a, 1) equals x for
\* every byte array x and every a in 0..7: the negative amount rotates each
\* byte right by a.
C16_RotateRoundTrip ==
  (call.fn = "processRotateLeft" /\ call.groupSize = 1 /\ call.step = 2)
    => call.ok /\ call.data = call.x

\* The order of x and y: -1, 0 or 1 from the first differing byte, else from
\* the lengths.
LexSign(x, y) ==
  LET D == {i \in 1..Min(Len(x), Len(y)) : x[i] # y[i]} IN
  IF D # {}
    THEN (LET i == CHOOSE i \in D : \A j \in D : i <= j
          IN  IF x[i] < y[i] THEN 0 - 1 ELSE 1)
  ELSE IF Len(x) < Len(y) THEN 0 - 1
  ELSE IF Len(x) > Len(y) THEN 1
  ELSE 0

Sign(v) == IF v < 0 THEN 0 - 1 ELSE IF v > 0 THEN 1 ELSE 0

\* C18: byteArrayCompare(a, b) * byteArrayCompare(b, a) <= 0; the result is
\* 0 exactly when a and b have the same length and the same elements;
\* otherwise its sign is that of the first differing byte, or of the length
\* difference when one array is a prefix of the other.
C18_CompareOrder ==
  call.fn = "byteArrayCompare" =>
    /\ Len(call.rets) >= 1 =>
         /\ call.rets[1] = 0 <=> call.x = call.y
         /\ Sign(call.rets[1]) = LexSign(call.x, call.y)
    /\ Len(call.rets) = 2 => call.rets[1] * call.rets[2] <= 0

\* <<1>> against <<1, 255>> and back: a prefix is smaller, both ways round.
C18_Witness ==
  /\ call.fn = "byteArrayCompare" /\ Len(call.rets) = 2
  /\ call.x = <<1>> /\ call.y = <<1, 255>>
  /\ call.rets[1] < 0 /\ call.rets[2] > 0

\* C19: mod(a, b) with b > 0 returns r with 0 <= r < b and r congruent to a
\* modulo b; with b <= 0 it fails.
C19_Mod ==
  (call.fn = "mod" /\ call.done) =>
    IF call.b > 0
      THEN /\ call.out.ok
           /\ call.out.ret \in 0..(call.b - 1)
           /\ \E q \in (0 - MaxMod - 1)..MaxMod :
                call.a = q * call.b + call.out.ret
      ELSE ~call.out.ok

\* mod(-7, 3) = 2
C19_Witness ==
  /\ call.fn = "mod" /\ call.done
  /\ call.a = 0 - 7 /\ call.b = 3 /\ call.out = Returned(2)

\* The four bit reads of a page's flags have returned, having started on a
\* byte-aligned stream whose next byte was 0x06.
FlagsReadOf6 ==
  /\ node.pc \notin {"none", "failed"} /\ Len(node.returned) = 4
  /\ node.flagsAligned /\ StreamByte(node.flagsAt) = 6

\* The numbers returned by the four bit reads, as integers.
ReturnedInts == [k \in 1..Len(node.returned) |-> NumInt(node.returned[k])]

\* C14 as stated: on an aligned stream whose next byte is 0x06,
\* readBitsIntBe(5), (1), (1), (1) return 0, 0, 1, 0.
C14_Flags0010 == FlagsReadOf6 => ReturnedInts = <<0, 0, 1, 0>>

\* C14, amended: on an aligned stream whose next byte is 0x06 = 0b00000110,
\* readBitsIntBe(5), (1), (1), (1) return 0, 1, 1, 0: the five high bits,
\* then bits 2, 1 and 0.
C14_Flags0110 ==
  FlagsReadOf6 =>
    /\ ReturnedInts = <<0, 1, 1, 0>>
    /\ \A k \in 1..4 : node.returned[k] \in {NumZero, NumOne}
    /\ node.isEndOfStream /\ node.isBeginningOfStream /\ ~node.isContinuation

C14_Witness ==
  /\ FlagsReadOf6 /\ node.pc = "alignToByte" /\ node.flagsAt = 5
  /\ pos = 6 /\ bitsLeft = 0

\* What the constructor makes of its arguments.
RootFor(rootArg) == IF rootArg \in {Absent, Null} THEN This ELSE rootArg
ParentFor(parentArg) == IF parentArg = Absent THEN Null ELSE parentArg

\* C20: the constructor leaves root = the node itself iff the root argument
\* is null or absent, else the given root; parent = the given parent, null
\* by default; read is invoked exactly once and only after stream, parent and
\* root are stored; parent and root stay as they are from then on.
C20_Constructor ==
  node.pc # "none" =>
    /\ node.reads = (IF node.pc \in {"new", "stored", "rooted"} THEN 0 ELSE 1)
    /\ node.pc \notin {"new", "stored"} =>
         /\ node._io = "io"
         /\ node._parent = ParentFor(node.parentArg)
         /\ node._root = RootFor(node.rootArg)
         /\ node._root = This <=> node.rootArg \in {Absent, Null}

\* new Page(io, parent, null) has finished reading: it is its own root.
C20_Witness ==
  /\ node.pc = "done" /\ node.reads = 1
  /\ node.rootArg = Null /\ node._root = This
  /\ node.parentArg = "parentNode" /\ node._parent = "parentNode"

\* pos + n <= size for a number n
FitsFrom(p, n) == NumLeq(NumAdd(SignExt32(p), n), SignExt32(Size))

\* C22: for every n >= 0, readBytes(n) succeeds iff pos + n <= size, then
\* returning the n bytes at [pos, pos + n) and advancing pos by n, and
\* otherwise throws EOFError with bytesRequired = n and bytesAvailable =
\* size - pos; readBytesFull returns the bytes at [pos, size) and leaves
\* pos = size.
C22_ReadBytes ==
  /\ (last.op = "readBytes" /\ ~NumNegative(last.len)) =>
       IF FitsFrom(last.prePos, last.len)
         THEN /\ last.ok
              /\ last.ret.bytes = StreamRun(last.prePos, Low32(last.len))
              /\ SignExt32(pos) = NumAdd(SignExt32(last.prePos), last.len)
         ELSE /\ ~last.ok
              /\ last.err.kind = "EOFError"
              /\ SignExt32(last.err.bytesRequired) = last.len
              /\ last.err.bytesAvailable = Size - last.prePos
  /\ last.op = "readBytesFull" =>
       /\ last.ok
       /\ last.ret.bytes = StreamRun(last.prePos, Size - last.prePos)
       /\ pos = Size

\* The observed call failed in one of the ways the stream operations report:
\* end of stream, a bit length over 32, a missing terminator, unexpected
\* contents.
FailedCall ==
  /\ last.op # "none" /\ ~last.ok
  /\ last.err.kind \in {"EOFError", "Error", "string", "UnexpectedDataError"}

CursorKept ==
  pos = last.prePos /\ bits = last.preBits /\ bitsLeft = last.preBitsLeft

\* C23 as stated: a stream operation that fails leaves pos, bits and
\* bitsLeft as they were before the call.
C23_FailureKeepsCursor == FailedCall => CursorKept

\* C23, amended: a stream operation that fails leaves pos, bits and bitsLeft
\* as they were before the call, except that ensureFixedContents failing on
\* a content mismatch has consumed the bytes it compared: pos is advanced by
\* the length of expected, bits and bitsLeft are as before.
C23_FailureCursor ==
  FailedCall =>
    IF last.err.kind = "UnexpectedDataError"
      THEN /\ last.op = "ensureFixedContents"
           /\ pos = last.prePos + Len(last.expected)
           /\ Len(last.expected) > 0
           /\ bits = last.preBits /\ bitsLeft = last.preBitsLeft
      ELSE CursorKept

\* ensureFixedContents([65, 66]) with bits held has thrown on a mismatch.
C23_Witness ==
  /\ FailedCall /\ last.op = "ensureFixedContents"
  /\ last.err.kind = "UnexpectedDataError" /\ Len(last.expected) = 2
  /\ last.preBitsLeft > 0 /\ pos = last.prePos + 2

\* Every bit-integer read since the stream was last aligned used one bit
\* order.
SingleOrder == run.order \in {"none", "be", "le"}

\* C24: after bit-integer reads in a single bit order, interleaved with
\* alignToByte, 0 <= bitsLeft <= 7 and 0 <= bits < 2^bitsLeft.
C24_ValidBits ==
  SingleOrder => bitsLeft \in 0..7 /\ bits >= 0 /\ bits < 2 ^ bitsLeft

\* C25: however the stream was constructed, with 0 <= pos < size readU1()
\* and readBytes(1)[0] both return the byte at index base + pos of the
\* underlying region (base = _byteOffset, size = _byteLength - base), and so
\* the same byte.
C25_SameByte ==
  /\ (last.op = "readU1" /\ last.prePos \in 0..(Size - 1)) =>
       last.ok /\ last.ret.num = SignExt32(StreamByte(last.prePos))
  /\ (last.op = "readBytes" /\ last.len = NumOne
        /\ last.prePos \in 0..(Size - 1)) =>
       last.ok /\ last.ret.bytes = <<StreamByte(last.prePos)>>

\* 128 * x for a number x
NumMul128(x) ==
  [j \in LimbIdx |-> ((x[j] * 128) % 65536)
                     + (IF j > 1 THEN (x[j - 1] * 128) \div 65536 ELSE 0)]

RECURSIVE ChunkSum(_, _)
\* The sum of chunk_i * 128^(k - 1 - i) over the first k groups.
ChunkSum(groups, k) ==
  IF k = 0 THEN NumZero
  ELSE NumAdd(NumMul128(ChunkSum(groups, k - 1)), SignExt32(groups[k] % 128))

\* A VlqBase128Be constructed on its own has been read.
VlqRead == node.pc = "done" /\ node.cls = "VlqBase128Be"

\* The groups are the bytes from where the quantity starts up to and
\* including the first byte with bit 7 clear.
GroupsConsumed ==
  /\ Len(node.groups) >= 1
  /\ pos = node.vlqFrom + Len(node.groups)
  /\ \A i \in 1..Len(node.groups) :
       /\ node.groups[i] = StreamByte(node.vlqFrom + i - 1)
       /\ node.groups[i] >= 128 <=> i < Len(node.groups)

\* C21: VlqBase128Be consumes one byte per group up to and including the
\* first byte whose bit 7 is clear, and for 1 <= k <= 8 groups its value is
\* the sum of chunk_i * 128^(k-1-i), chunk_i the low 7 bits of byte i.
C21_VlqValue ==
  VlqRead =>
    /\ GroupsConsumed
    /\ (node.hasValue /\ Len(node.groups) \in 1..8) =>
         node.value = ChunkSum(node.groups, Len(node.groups))

\* The parser has come to its end: an error left it, or Ogg.read or
\* TrackEvents.read returned at the end of the stream with pos advanced by
\* every turn of the loop, or VlqBase128Be.read returned just past the first
\* byte with bit 7 clear.
LoopFinished ==
  \/ node.pc = "failed"
  \/ node.pc = "Ogg.done" /\ IsEof /\ ~node.stalled
  \/ node.pc = "done" /\ node.cls = "TrackEvents" /\ IsEof /\ ~node.stalled
  \/ VlqRead /\ GroupsConsumed

\* C26: on every finite buffer Ogg.read, TrackEvents.read and
\* VlqBase128Be.read terminate: each ends at the end of the stream (at the
\* first byte without continuation bit, for VlqBase128Be), every turn of
\* its loop having advanced pos, or propagates an error.
C26_LoopsTerminate == <>LoopFinished

\* Ogg.read has read two pages and returned at the end of the stream.
C26_Witness ==
  /\ node.pc = "Ogg.done" /\ node.pages = 2 /\ IsEof /\ ~node.stalled
  /\ pos = Size /\ Size > 0

====
